---- MODULE Spec2Model ----
(***************************************************************************)
(* tribf: a Brainfuck-to-C transpiler (src/src/main.rs).                   *)
(*                                                                         *)
(* Spec      the run of main(): create the output file, validate --bits,   *)
(*           select the optimisations, filter, "[-]"/"[+]" replacement,    *)
(*           tokenize, prune, pad, the peephole scan (one action per loop  *)
(*           iteration) and code generation.                               *)
(* SpecExec  the emitted statements executed on a tape: the token sequence *)
(*           before the peephole scan and the one after it, from the same  *)
(*           starting tape and pointer.                                    *)
(*                                                                         *)
(* A text is a sequence of one-character strings.                          *)
(***************************************************************************)
EXTENDS Integers, Sequences, FiniteSets, TLC

VARIABLES
    pc,              \* position of main() in its body
    input_contents,  \* main.rs:26  the text read from the input file
    bits,            \* main.rs:32  the value of --bits
    optilevel,       \* main.rs:54
    output_file,     \* main.rs:29  the file at the output path
    optimizations,   \* main.rs:57
    code,            \* main.rs:82
    tokens,          \* main.rs:93
    newtokens,       \* main.rs:128
    i,               \* main.rs:129
    phase,           \* SpecExec: which of the two executions is running
    mU,              \* SpecExec: the execution of tokens (before the scan)
    mO               \* SpecExec: the execution of newtokens (after the scan)

vars == <<pc, input_contents, bits, optilevel, output_file, optimizations,
          code, tokens, newtokens, i, phase, mU, mO>>

pipeVars == <<pc, input_contents, bits, optilevel, output_file, optimizations,
              code, tokens, newtokens, i>>

execVars == <<phase, mU, mO>>

-----------------------------------------------------------------------------
(* Bound: a text is the concatenation of at most MaxFrags fragments *)
MaxFrags == 2

\* the size of the lookahead window and what each matching arm adds to i
WindowLen == 8
MoveLoopSkip == 5
CopyLoopSkip == 7
OffsetSkip == 2

-----------------------------------------------------------------------------
(* enum Token *)

Add(x) == [k |-> "Add", x |-> x, y |-> 0]
AddOffset(x, o) == [k |-> "AddOffset", x |-> x, y |-> o]
Zero == [k |-> "Zero", x |-> 0, y |-> 0]
ZeroOffset(o) == [k |-> "ZeroOffset", x |-> o, y |-> 0]
Move(x) == [k |-> "Move", x |-> x, y |-> 0]
In == [k |-> "In", x |-> 0, y |-> 0]
Out == [k |-> "Out", x |-> 0, y |-> 0]
BeginLoop == [k |-> "BeginLoop", x |-> 0, y |-> 0]
EndLoop == [k |-> "EndLoop", x |-> 0, y |-> 0]
Null == [k |-> "Null", x |-> 0, y |-> 0]
Mult(x, y) == [k |-> "Mult", x |-> x, y |-> y]

-----------------------------------------------------------------------------
(* Optimisations by level *)

NoOptimisations ==
    [zero_loop |-> FALSE, clump_ops |-> FALSE, move_loop |-> FALSE,
     copy_loop |-> FALSE, mult_loop |-> FALSE, add_offset |-> FALSE,
     zero_offset |-> FALSE]

OptimisationsClumpAlways(level) ==
    [zero_loop |-> level >= 1, clump_ops |-> TRUE, move_loop |-> level >= 2,
     copy_loop |-> level >= 2, mult_loop |-> level >= 2,
     add_offset |-> level >= 3, zero_offset |-> level >= 3]

OptimisationsFor(level) ==
    [zero_loop |-> level >= 1, clump_ops |-> level >= 1,
     move_loop |-> level >= 2, copy_loop |-> level >= 2,
     mult_loop |-> level >= 2,
     add_offset |-> level >= 3, zero_offset |-> level >= 3]

-----------------------------------------------------------------------------
(* Filter and the "[-]" / "[+]" replacement *)

Recognized(c) == c \in {"+", "-", "<", ">", "[", "]", ",", "."}

FilterText(s) == SelectSeq(s, Recognized)

\* str::replace: every non-overlapping match, left to right
RECURSIVE Replace(_, _, _)
Replace(s, pat, rep) ==
    IF Len(s) < Len(pat) THEN s
    ELSE IF SubSeq(s, 1, Len(pat)) = pat
         THEN rep \o Replace(SubSeq(s, Len(pat) + 1, Len(s)), pat, rep)
         ELSE <<Head(s)>> \o Replace(Tail(s), pat, rep)

ZeroLoopText(s) ==
    Replace(Replace(s, <<"[", "-", "]">>, <<"0">>), <<"[", "+", "]">>, <<"0">>)

-----------------------------------------------------------------------------
(* Tokenization and grouping *)

\* the clumping rules: does c extend the pending token cur, and to what
Clumps(c, cur) ==
    \/ c \in {"+", "-", "0"} /\ cur.k = "Add"
    \/ c = "0" /\ cur.k = "Zero"
    \/ c \in {">", "<"} /\ cur.k = "Move"

Clumped(c, cur) ==
    CASE c = "+" -> Add(cur.x + 1)
      [] c = "-" -> Add(cur.x - 1)
      [] c = "0" -> Zero
      [] c = ">" -> Move(cur.x + 1)
      [] c = "<" -> Move(cur.x - 1)

\* the normal rules: the token a character opens
Opens(c) ==
    CASE c = "+" -> Add(1)
      [] c = "-" -> Add(-1)
      [] c = "0" -> Zero
      [] c = ">" -> Move(1)
      [] c = "<" -> Move(-1)
      [] c = "." -> Out
      [] c = "," -> In
      [] c = "[" -> BeginLoop
      [] c = "]" -> EndLoop

\* one iteration of `for c in code.chars()`; st = [tokens, current]
TokStep(st, c, clump) ==
    IF clump /\ Clumps(c, st.current)
    THEN [tokens |-> st.tokens, current |-> Clumped(c, st.current)]
    ELSE IF c \in {"+", "-", "0", ">", "<", ".", ",", "[", "]"}
         THEN [tokens |-> Append(st.tokens, st.current), current |-> Opens(c)]
         ELSE st

\* the state of the loop after the first n characters of s
RECURSIVE TokLoop(_, _, _)
TokLoop(s, n, clump) ==
    IF n = 0 THEN [tokens |-> <<>>, current |-> Null]
    ELSE TokStep(TokLoop(s, n - 1, clump), s[n], clump)

\* the loop and the final tokens.push(current)
Tokenize(s, clump) ==
    LET st == TokLoop(s, Len(s), clump)
    IN  Append(st.tokens, st.current)

InvalidKeepsMoveZero(t) == t = Null \/ t = Add(0)

Invalid(t) == t = Null \/ t = Add(0) \/ t = Move(0)

Valid(t) == ~Invalid(t)

\* Remove invalid tokens
Prune(ts) == SelectSeq(ts, Valid)

RECURSIVE Nulls(_)
Nulls(n) == IF n = 0 THEN <<>> ELSE <<Null>> \o Nulls(n - 1)

Pad(ts) == ts \o Nulls(WindowLen)

-----------------------------------------------------------------------------
(* The peephole scan: the match on tokens[i..(i+8)] *)

OppositeSign(m1, m2) == (m1 > 0 /\ m2 < 0) \/ (m1 < 0 /\ m2 > 0)

IsAdd(t) == t.k = "Add"
IsMove(t) == t.k = "Move"

\* arm 1, either alternative: [ - m1 a1 m2 ]  or  [ m1 a1 m2 - ]
MoveLoopA(w) ==
    /\ w[1] = BeginLoop /\ w[2] = Add(-1) /\ IsMove(w[3]) /\ IsAdd(w[4])
    /\ IsMove(w[5]) /\ w[6] = EndLoop

MoveLoopB(w) ==
    /\ w[1] = BeginLoop /\ IsMove(w[2]) /\ IsAdd(w[3]) /\ IsMove(w[4])
    /\ w[5] = Add(-1) /\ w[6] = EndLoop

\* arm 2, either alternative
CopyLoopA(w) ==
    /\ w[1] = BeginLoop /\ w[2] = Add(-1) /\ IsMove(w[3]) /\ IsAdd(w[4])
    /\ IsMove(w[5]) /\ IsAdd(w[6]) /\ IsMove(w[7]) /\ w[8] = EndLoop

CopyLoopB(w) ==
    /\ w[1] = BeginLoop /\ IsMove(w[2]) /\ IsAdd(w[3]) /\ IsMove(w[4])
    /\ IsAdd(w[5]) /\ IsMove(w[6]) /\ w[7] = Add(-1) /\ w[8] = EndLoop

\* arms 3 and 4
AddOffsetShape(w) == IsMove(w[1]) /\ IsAdd(w[2]) /\ IsMove(w[3])

ZeroOffsetShape(w) == IsMove(w[1]) /\ w[2] = Zero /\ IsMove(w[3])

\* the tokens each arm pushes
MoveLoopOutNoZero(m1, a1) == <<Mult(m1, a1)>>

MoveLoopOut(m1, a1) == <<Mult(m1, a1), Zero>>

CopyLoopOutSecondRelative(m1, a1, m2, a2) ==
    <<Mult(m1, a1), Mult(m2, a2), Zero>>

CopyLoopOut(m1, a1, m2, a2) == <<Mult(m1, a1), Mult(m1 + m2, a2), Zero>>

AddOffsetOutAlwaysMove(a, m1, m2) == <<AddOffset(a, m1), Move(m1 + m2)>>

AddOffsetOut(a, m1, m2) ==
    IF m1 = -m2 THEN <<AddOffset(a, m1)>>
    ELSE <<AddOffset(a, m1), Move(m1 + m2)>>

ZeroOffsetOut(m1, m2) ==
    IF m1 = -m2 THEN <<ZeroOffset(m1)>>
    ELSE <<ZeroOffset(m1), Move(m1 + m2)>>

\* what a matching arm adds to i before the loop's own i += 1
SkipOfLoopShort(shape) ==
    CASE shape = "move_loop" -> MoveLoopSkip - 1
      [] shape = "copy_loop" -> CopyLoopSkip - 1
      [] shape = "add_offset" -> OffsetSkip
      [] shape = "zero_offset" -> OffsetSkip
      [] OTHER -> 0

SkipOfOffsetShort(shape) ==
    CASE shape = "move_loop" -> MoveLoopSkip
      [] shape = "copy_loop" -> CopyLoopSkip
      [] shape = "add_offset" -> OffsetSkip - 1
      [] shape = "zero_offset" -> OffsetSkip - 1
      [] OTHER -> 0

SkipOf(shape) ==
    CASE shape = "move_loop" -> MoveLoopSkip
      [] shape = "copy_loop" -> CopyLoopSkip
      [] shape = "add_offset" -> OffsetSkip
      [] shape = "zero_offset" -> OffsetSkip
      [] OTHER -> 0

Arm(shape, out) == [shape |-> shape, out |-> out, skip |-> SkipOf(shape)]

\* the match expression, arms in source order; w is the 8-token window
Match(w, opt) ==
    IF MoveLoopA(w) /\ w[3].x = -w[5].x /\ opt.move_loop
        THEN Arm("move_loop", MoveLoopOut(w[3].x, w[4].x))
    ELSE IF MoveLoopB(w) /\ w[2].x = -w[4].x /\ opt.move_loop
        THEN Arm("move_loop", MoveLoopOut(w[2].x, w[3].x))
    ELSE IF /\ CopyLoopA(w) /\ -w[7].x = w[3].x + w[5].x /\ opt.copy_loop
            /\ ((w[4].x = 1 /\ w[6].x = 1) \/ opt.mult_loop)
        THEN Arm("copy_loop", CopyLoopOut(w[3].x, w[4].x, w[5].x, w[6].x))
    ELSE IF /\ CopyLoopB(w) /\ -w[6].x = w[2].x + w[4].x /\ opt.copy_loop
            /\ ((w[3].x = 1 /\ w[5].x = 1) \/ opt.mult_loop)
        THEN Arm("copy_loop", CopyLoopOut(w[2].x, w[3].x, w[4].x, w[5].x))
    ELSE IF AddOffsetShape(w) /\ OppositeSign(w[1].x, w[3].x) /\ opt.add_offset
        THEN Arm("add_offset", AddOffsetOut(w[2].x, w[1].x, w[3].x))
    ELSE IF ZeroOffsetShape(w) /\ OppositeSign(w[1].x, w[3].x) /\ opt.zero_offset
        THEN Arm("zero_offset", ZeroOffsetOut(w[1].x, w[3].x))
    ELSE Arm("none", <<w[1]>>)

\* &tokens[i..(i+8)], i counted from 0
Window(ts, n) == SubSeq(ts, n + 1, n + WindowLen)

\* the whole while loop, from position n with acc already pushed
RECURSIVE ScanFrom(_, _, _, _)
ScanFrom(ts, n, acc, opt) ==
    IF n < Len(ts) - WindowLen
    THEN LET r == Match(Window(ts, n), opt)
         IN  ScanFrom(ts, n + r.skip + 1, acc \o r.out, opt)
    ELSE acc

\* the scan positions of the while loop, each with the length of newtokens
\* on arrival; the last pair is the position at which the loop ends
RECURSIVE Visits(_, _, _, _)
Visits(ts, n, outlen, opt) ==
    IF n < Len(ts) - WindowLen
    THEN LET r == Match(Window(ts, n), opt)
         IN  {<<n, outlen>>}
                 \cup Visits(ts, n + r.skip + 1, outlen + Len(r.out), opt)
    ELSE {<<n, outlen>>}

-----------------------------------------------------------------------------
(* Code generation *)

ValidBits == {"8", "16", "32", "64"}

Datatype(b) == "int" \o b \o "_t"

Line(tmpl, a, b) == [tmpl |-> tmpl, a |-> a, b |-> b]

\* the arms of the emitter's match; Null and anything else panics. In is
\* inputcode without an --eof-* flag
Statement(t) ==
    CASE t.k = "Add" -> Line("*ptr+={};", t.x, 0)
      [] t.k = "AddOffset" -> Line("*(ptr+{})+={};", t.y, t.x)
      [] t.k = "Move" -> Line("ptr+={};", t.x, 0)
      [] t.k = "Zero" -> Line("*ptr=0;", 0, 0)
      [] t.k = "ZeroOffset" -> Line("*(ptr+{})=0;", t.x, 0)
      [] t.k = "Mult" -> Line("*(ptr+{})+=*ptr*{};", t.x, t.y)
      [] t.k = "BeginLoop" -> Line("while(*ptr){", 0, 0)
      [] t.k = "EndLoop" -> Line("}", 0, 0)
      [] t.k = "Out" -> Line("putchar(*ptr);", 0, 0)
      [] t.k = "In" -> Line("*ptr=getchar();", 0, 0)

Statements(ts) == [n \in 1..Len(ts) |-> Statement(ts[n])]

\* --length at its default
Prologue(b) ==
    <<Line("#include <stdio.h> #include <inttypes.h>", 0, 0),
      Line(Datatype(b) \o " mem[30000]; *ptr = mem; inbuf;", 0, 0),
      Line("int main() {", 0, 0)>>

Epilogue == <<Line("return 0; }", 0, 0)>>

-----------------------------------------------------------------------------
(* The inputs of a run *)

Fragments ==
    { <<"+">>, <<"-">>, <<">">>, <<"<">>, <<".">>, <<",">>, <<"[">>, <<"]">>,
      <<"0">>,
      <<"[", "-", "]">>,
      <<"[", "-", ">", "+", "<", "]">>,
      <<"[", ">", ">", "+", "+", "<", "<", "-", "]">>,
      <<"[", "-", ">", "+", ">", "+", "<", "<", "]">>,
      <<"[", "<", "+", "+", "<", "-", "-", ">", ">", "-", "]">>,
      <<">", "+", "<">>,
      <<">", ">", "+", "<", "+", "<">>,
      <<"<", "[", "-", "]", ">", ">">>,
      <<">", "+", ">">>,
      <<"[", ">", "[", "-", "<", "+", ">", "]", "<", "]">> }

RECURSIVE TextsOf(_)
TextsOf(n) ==
    IF n = 0 THEN {<<>>}
    ELSE LET prev == TextsOf(n - 1)
         IN  prev \cup {t \o f : t \in prev, f \in Fragments}

Texts == TextsOf(MaxFrags)

BitsArgs == {"7", "8", "64"}

Levels == 0..3

\* the output path before the run: no file, or a file left by an earlier run
AbsentFile == [state |-> "absent", data |-> <<>>]
StaleFile == [state |-> "stale", data |-> <<Line("stale", 0, 0)>>]

Idle == [st |-> "idle"]

-----------------------------------------------------------------------------
(* main() *)

Init ==
    /\ pc = "create"
    /\ input_contents \in Texts
    /\ bits \in BitsArgs
    /\ optilevel \in Levels
    /\ output_file \in {AbsentFile, StaleFile}
    /\ optimizations = NoOptimisations
    /\ code = <<>>
    /\ tokens = <<>>
    /\ newtokens = <<>>
    /\ i = 0
    /\ phase = "none" /\ mU = Idle /\ mO = Idle

\* File::create(output_path): creates the file or truncates it
CreateOutput ==
    /\ pc = "create"
    /\ output_file' = [state |-> "empty", data |-> <<>>]
    /\ pc' = "bits"
    /\ UNCHANGED <<input_contents, bits, optilevel, optimizations, code,
                   tokens, newtokens, i>>
    /\ UNCHANGED execVars

\* the match on bitcount: a datatype, or the panic
CheckBits ==
    /\ pc = "bits"
    /\ pc' = IF bits \in ValidBits THEN "level" ELSE "panic_bits"
    /\ UNCHANGED <<input_contents, bits, optilevel, output_file, optimizations,
                   code, tokens, newtokens, i>>
    /\ UNCHANGED execVars

SelectOptimisations ==
    /\ pc = "level"
    /\ optimizations' = OptimisationsFor(optilevel)
    /\ pc' = "filter"
    /\ UNCHANGED <<input_contents, bits, optilevel, output_file, code, tokens,
                   newtokens, i>>
    /\ UNCHANGED execVars

FilterInput ==
    /\ pc = "filter"
    /\ code' = FilterText(input_contents)
    /\ pc' = "zero_loop"
    /\ UNCHANGED <<input_contents, bits, optilevel, output_file, optimizations,
                   tokens, newtokens, i>>
    /\ UNCHANGED execVars

ZeroLoop ==
    /\ pc = "zero_loop"
    /\ code' = IF optimizations.zero_loop THEN ZeroLoopText(code) ELSE code
    /\ pc' = "tokenize"
    /\ UNCHANGED <<input_contents, bits, optilevel, output_file, optimizations,
                   tokens, newtokens, i>>
    /\ UNCHANGED execVars

TokenizeCode ==
    /\ pc = "tokenize"
    /\ tokens' = Tokenize(code, optimizations.clump_ops)
    /\ pc' = "prune"
    /\ UNCHANGED <<input_contents, bits, optilevel, output_file, optimizations,
                   code, newtokens, i>>
    /\ UNCHANGED execVars

PruneTokens ==
    /\ pc = "prune"
    /\ tokens' = Prune(tokens)
    /\ pc' = "pad"
    /\ UNCHANGED <<input_contents, bits, optilevel, output_file, optimizations,
                   code, newtokens, i>>
    /\ UNCHANGED execVars

PadTokens ==
    /\ pc = "pad"
    /\ tokens' = Pad(tokens)
    /\ newtokens' = <<>>
    /\ i' = 0
    /\ pc' = "peephole"
    /\ UNCHANGED <<input_contents, bits, optilevel, output_file, optimizations,
                   code>>
    /\ UNCHANGED execVars

\* a variant that puts the replacement back into the scanned sequence
PeepholeStepRescan ==
    /\ pc = "peephole"
    /\ i < Len(tokens) - WindowLen
    /\ LET r == Match(Window(tokens, i), optimizations)
       IN  IF r.shape = "none"
           THEN /\ newtokens' = newtokens \o r.out
                /\ i' = i + 1
                /\ tokens' = tokens
           ELSE /\ tokens' = SubSeq(tokens, 1, i) \o r.out
                             \o SubSeq(tokens, i + r.skip + 2, Len(tokens))
                /\ UNCHANGED <<newtokens, i>>
    /\ UNCHANGED <<pc, input_contents, bits, optilevel, output_file,
                   optimizations, code>>
    /\ UNCHANGED execVars

\* one iteration of `while i < tokens.len() - 8`
PeepholeStep ==
    /\ pc = "peephole"
    /\ i < Len(tokens) - WindowLen
    /\ LET r == Match(Window(tokens, i), optimizations)
       IN  /\ newtokens' = newtokens \o r.out
           /\ i' = i + r.skip + 1
    /\ UNCHANGED <<pc, input_contents, bits, optilevel, output_file,
                   optimizations, code, tokens>>
    /\ UNCHANGED execVars

\* the loop has ended: the three header writes, one write per token, the footer
CodeGeneration ==
    /\ pc = "peephole"
    /\ ~(i < Len(tokens) - WindowLen)
    /\ output_file' = [state |-> "written",
                       data |-> Prologue(bits) \o Statements(newtokens) \o Epilogue]
    /\ pc' = "done"
    /\ UNCHANGED <<input_contents, bits, optilevel, optimizations, code, tokens,
                   newtokens, i>>
    /\ UNCHANGED execVars

Next ==
    \/ CreateOutput
    \/ CheckBits
    \/ SelectOptimisations
    \/ FilterInput
    \/ ZeroLoop
    \/ TokenizeCode
    \/ PruneTokens
    \/ PadTokens
    \/ PeepholeStep
    \/ CodeGeneration

Spec == Init /\ [][Next]_vars

-----------------------------------------------------------------------------
(* The emitted statements on a tape                                        *)
(*                                                                         *)
(* mem is an array of TapeLen cells of CellBits bits and ptr an index into *)
(* it. Cell arithmetic wraps (modulo 2^CellBits). A statement that reads   *)
(* or writes a cell outside mem ends the execution with st = "oob".        *)

\* Bounds: the emitted mem[30000] of int8_t..int64_t cells is taken as
\* TapeLen cells of CellBits bits
TapeLen == 5
CellBits == 2

Modulus == 2 ^ CellBits

Wrap(v) == v % Modulus

\* the index of the EndLoop closing the BeginLoop at b (0: none)
RECURSIVE FindEnd(_, _, _)
FindEnd(prog, n, depth) ==
    IF n > Len(prog) THEN 0
    ELSE IF prog[n] = BeginLoop THEN FindEnd(prog, n + 1, depth + 1)
    ELSE IF prog[n] = EndLoop
         THEN IF depth = 0 THEN n ELSE FindEnd(prog, n + 1, depth - 1)
    ELSE FindEnd(prog, n + 1, depth)

\* the index of the BeginLoop opening the EndLoop at e (0: none)
RECURSIVE FindBegin(_, _, _)
FindBegin(prog, n, depth) ==
    IF n < 1 THEN 0
    ELSE IF prog[n] = EndLoop THEN FindBegin(prog, n - 1, depth + 1)
    ELSE IF prog[n] = BeginLoop
         THEN IF depth = 0 THEN n ELSE FindBegin(prog, n - 1, depth - 1)
    ELSE FindBegin(prog, n - 1, depth)

\* the cells the statement of token t reads or writes with the pointer at p
Touched(t, p) ==
    CASE t.k = "Add" -> {p}
      [] t.k = "AddOffset" -> {p + t.y}
      [] t.k = "Zero" -> {p}
      [] t.k = "ZeroOffset" -> {p + t.x}
      [] t.k = "Mult" -> {p, p + t.x}
      [] t.k = "BeginLoop" -> {p}
      [] t.k = "Out" -> {p}
      [] t.k = "In" -> {p}
      [] OTHER -> {}

InTape(c) == c >= 0 /\ c < TapeLen

\* the statement of prog[m.ip] applied to an execution m that stays in mem;
\* a cell holds its value modulo 2^CellBits, getchar() gives -1 at end of input
Apply(prog, m) ==
    LET t == prog[m.ip]
        p == m.ptr
        next == [m EXCEPT !.ip = m.ip + 1]
    IN  CASE t.k = "Add" ->
                [next EXCEPT !.tape[p] = Wrap(m.tape[p] + t.x)]
          [] t.k = "AddOffset" ->
                [next EXCEPT !.tape[p + t.y] = Wrap(m.tape[p + t.y] + t.x)]
          [] t.k = "Move" -> [next EXCEPT !.ptr = p + t.x]
          [] t.k = "Zero" -> [next EXCEPT !.tape[p] = 0]
          [] t.k = "ZeroOffset" -> [next EXCEPT !.tape[p + t.x] = 0]
          [] t.k = "Mult" ->
                [next EXCEPT !.tape[p + t.x] =
                                 Wrap(m.tape[p + t.x] + m.tape[p] * t.y)]
          [] t.k = "BeginLoop" ->
                IF m.tape[p] # 0 THEN next
                ELSE [m EXCEPT !.ip = FindEnd(prog, m.ip + 1, 0) + 1]
          [] t.k = "EndLoop" ->
                [m EXCEPT !.ip = FindBegin(prog, m.ip - 1, 0)]
          [] t.k = "Out" -> [next EXCEPT !.out = Append(m.out, m.tape[p])]
          [] t.k = "In" ->
                IF m.inp = <<>> THEN [next EXCEPT !.tape[p] = Wrap(-1)]
                ELSE [next EXCEPT !.tape[p] = Wrap(Head(m.inp)),
                                  !.inp = Tail(m.inp)]

\* one statement of prog
Exec(prog, m) ==
    IF m.ip > Len(prog) THEN [m EXCEPT !.st = "halt"]
    ELSE LET cells == Touched(prog[m.ip], m.ptr)
             seen == [m EXCEPT !.acc = m.acc \cup cells]
         IN  IF \A c \in cells : InTape(c) THEN Apply(prog, seen)
             ELSE [seen EXCEPT !.st = "oob"]

Start(tape, ptr, inp) ==
    [ip |-> 1, ptr |-> ptr, tape |-> tape, out |-> <<>>, inp |-> inp,
     acc |-> {}, st |-> "run"]

\* tokens without the eight filler tokens
Unpadded(ts) == SubSeq(ts, 1, Len(ts) - WindowLen)

-----------------------------------------------------------------------------
(* The programs and tapes of SpecExec *)

MovePayloads == {-2, -1, 1, 2}
AddPayloads == {-1, 1, 2}

RECURSIVE Rep(_, _)
Rep(c, n) == IF n <= 0 THEN <<>> ELSE <<c>> \o Rep(c, n - 1)

MoveText(m) == IF m > 0 THEN Rep(">", m) ELSE Rep("<", -m)
AddText(a) == IF a > 0 THEN Rep("+", a) ELSE Rep("-", -a)

MoveLoopTexts ==
    UNION {{ <<"[", "-">> \o MoveText(m) \o AddText(a) \o MoveText(-m) \o <<"]">>,
             <<"[">> \o MoveText(m) \o AddText(a) \o MoveText(-m) \o <<"-", "]">> }
           : m \in MovePayloads, a \in AddPayloads}

CopyLoopTexts ==
    UNION {{ <<"[", "-">> \o MoveText(m[1]) \o AddText(a[1]) \o MoveText(m[2])
                 \o AddText(a[2]) \o MoveText(-(m[1] + m[2])) \o <<"]">>,
             <<"[">> \o MoveText(m[1]) \o AddText(a[1]) \o MoveText(m[2])
                 \o AddText(a[2]) \o MoveText(-(m[1] + m[2])) \o <<"-", "]">> }
           : m \in {mm \in MovePayloads \X MovePayloads : mm[1] + mm[2] # 0},
             a \in AddPayloads \X AddPayloads}

OppositeMoves == {mm \in MovePayloads \X MovePayloads : OppositeSign(mm[1], mm[2])}

AddOffsetTexts ==
    {MoveText(m[1]) \o AddText(a) \o MoveText(m[2])
       : m \in OppositeMoves, a \in AddPayloads}

ZeroOffsetTexts ==
    {MoveText(m[1]) \o <<"[", "-", "]">> \o MoveText(m[2]) : m \in OppositeMoves}

Windows == MoveLoopTexts \cup CopyLoopTexts \cup AddOffsetTexts \cup ZeroOffsetTexts

\* each window followed by an output of the current cell; some after an input
ExecTexts ==
    {w \o <<".">> : w \in Windows}
        \cup {<<",">> \o w \o <<".">> : w \in MoveLoopTexts \cup AddOffsetTexts}

HasInput(s) == \E n \in 1..Len(s) : s[n] = ","

Stdins == {<<>>, <<3>>}

\* the cell under the pointer holds v, every other cell f
TapeOf(ptr, v, f) == [c \in 0..(TapeLen - 1) |-> IF c = ptr THEN v ELSE f]

\* the default optimisation level (--optimize absent)
DefaultLevel == 3

PrunedTokens(s, opt) ==
    Prune(Tokenize(IF opt.zero_loop THEN ZeroLoopText(FilterText(s))
                   ELSE FilterText(s), opt.clump_ops))

InitExec ==
    /\ pc = "done"
    /\ input_contents \in ExecTexts
    /\ bits = "8"
    /\ optilevel = DefaultLevel
    /\ optimizations = OptimisationsFor(optilevel)
    /\ code = IF optimizations.zero_loop THEN ZeroLoopText(FilterText(input_contents))
              ELSE FilterText(input_contents)
    /\ tokens = Pad(PrunedTokens(input_contents, optimizations))
    /\ newtokens = ScanFrom(tokens, 0, <<>>, optimizations)
    /\ i = Len(tokens) - WindowLen
    /\ output_file = [state |-> "written",
                      data |-> Prologue(bits) \o Statements(newtokens) \o Epilogue]
    /\ phase = "U"
    /\ \E p \in 0..(TapeLen - 1), v \in 0..(Modulus - 1), f \in {0, 1, Modulus - 1},
          inp \in Stdins :
            /\ HasInput(input_contents) \/ inp = <<>>
            /\ mU = Start(TapeOf(p, v, f), p, inp)
            /\ mO = mU

\* one statement of the program before the scan
StepU ==
    /\ phase = "U"
    /\ mU' = Exec(Unpadded(tokens), mU)
    /\ phase' = IF mU'.st = "run" THEN "U" ELSE "O"
    /\ UNCHANGED mO
    /\ UNCHANGED pipeVars

\* one statement of the program after the scan
StepO ==
    /\ phase = "O"
    /\ mO' = Exec(newtokens, mO)
    /\ phase' = IF mO'.st = "run" THEN "O" ELSE "done"
    /\ UNCHANGED mU
    /\ UNCHANGED pipeVars

NextExec == StepU \/ StepO

SpecExec == InitExec /\ [][NextExec]_vars

-----------------------------------------------------------------------------
(* Properties *)

\* the scan as a whole (ScanFrom) and the scan step by step agree
ScanAgrees ==
    pc = "done" => newtokens = ScanFrom(tokens, 0, <<>>, optimizations)

IsPrefix(a, b) == Len(a) <= Len(b) /\ SubSeq(b, 1, Len(a)) = a

Halted == phase = "done" /\ mU.st = "halt" /\ mO.st = "halt"

\* C1: for each recognized idiom window (move-accumulate loop, dual-destination
\* copy loop, move/add/move, move/zero/move), executing the replacement and
\* executing the original window from the same tape, pointer and input, with
\* wrapping cells and every touched cell inside the tape, ends with the same
\* tape, the same pointer and the same output.
C1_Equivalent ==
    Halted => (mO.tape = mU.tape /\ mO.ptr = mU.ptr /\ mO.out = mU.out)

\* a copy loop that ran: source and both destinations touched, output written
C1_Witness ==
    /\ Halted
    /\ newtokens[1].k = "Mult" /\ newtokens[2].k = "Mult"
    /\ Cardinality(mU.acc) = 3
    /\ mU.out # <<>>
    /\ \E c \in 0..(TapeLen - 1) : mU.tape[c] \notin {0, Modulus - 1}

\* C2: with --bits not one of 8, 16, 32, 64 the run aborts and, at the abort,
\* the output path has been neither created nor truncated nor written to.
C2_NoOutputOnBadBits ==
    pc = "panic_bits" => output_file \in {AbsentFile, StaleFile}

\* C3: for every input and level the instruction sequence handed to the emitter
\* holds no Add(0) and no Move(0); the residual Move of a constant-offset
\* rewrite is never Move(0).
C3_NoZeroPayload ==
    pc \in {"peephole", "done"} =>
        \A n \in 1..Len(newtokens) : newtokens[n] \notin {Add(0), Move(0)}

\* a final sequence with an offset rewrite and its residual Move
C3_Witness ==
    /\ pc = "done"
    /\ \E n \in 1..(Len(newtokens) - 1) :
          newtokens[n].k \in {"AddOffset", "ZeroOffset"} /\ newtokens[n + 1].k = "Move"

LiteralToken(c) ==
    CASE c = "+" -> Add(1)
      [] c = "-" -> Add(-1)
      [] c = ">" -> Move(1)
      [] c = "<" -> Move(-1)
      [] c = "." -> Out
      [] c = "," -> In
      [] c = "[" -> BeginLoop
      [] c = "]" -> EndLoop

Literal(s) ==
    LET f == SelectSeq(s, LAMBDA c : c \in {"+", "-", ">", "<", ".", ",", "[", "]"})
    IN  [n \in 1..Len(f) |-> LiteralToken(f[n])]

\* C4: at level 0 every optimisation flag is off and the final sequence is one
\* instruction per recognized symbol of the input, in input order, with no
\* clumping, no clear-cell substitution and no idiom rewrite.
C4_LiteralAtLevel0 ==
    optilevel = 0 =>
        /\ optimizations = NoOptimisations
        /\ pc = "done" => newtokens = Literal(input_contents)

\* level 0 on a text that holds the clear-cell idiom and an offset idiom
C4_Witness ==
    /\ pc = "done" /\ optilevel = 0
    /\ input_contents = <<"[", "-", "]", ">", "+", "<">>
    /\ Len(newtokens) = 6

\* C5: the peephole scan is a single pass: the scanned sequence is never
\* changed by a step, what a step emits is only appended to the output and
\* stays there, and the position only moves forward, so a replacement is never
\* matched again; the residual Move of an offset rewrite followed by Add and an
\* opposite-sign Move stays unrewritten in the final sequence.
C5_SinglePass ==
    /\ [][pc = "peephole" =>
            /\ tokens' = tokens
            /\ IsPrefix(newtokens, newtokens')
            /\ (pc' = "peephole" => i' > i)]_vars
    /\ [](/\ pc = "done" /\ optilevel = 3
          /\ input_contents = <<">", ">", "+", "<", "+", "<">>
          => newtokens = <<AddOffset(1, 2), Move(1), Add(1), Move(-1)>>)

\* the final sequence holds a residual Move, an Add and an opposite-sign Move
C5_Witness ==
    /\ pc = "done"
    /\ \E n \in 1..(Len(newtokens) - 3) :
          /\ newtokens[n].k = "AddOffset" /\ newtokens[n + 1].k = "Move"
          /\ newtokens[n + 2].k = "Add" /\ newtokens[n + 3].k = "Move"
          /\ OppositeSign(newtokens[n + 1].x, newtokens[n + 3].x)

Kinds(ts, n, len) == [j \in 1..len |-> ts[n + j].k]

\* a loop at position n (from 0) whose body is -1, m1, a1, m2, a2, m3 in either
\* rotation with -m3 = m1 + m2
IsCopyLoopAt(ts, n) ==
    /\ n + 8 <= Len(ts)
    /\ \/ /\ Kinds(ts, n, 8) = <<"BeginLoop", "Add", "Move", "Add", "Move",
                                 "Add", "Move", "EndLoop">>
          /\ ts[n + 2].x = -1
          /\ -ts[n + 7].x = ts[n + 3].x + ts[n + 5].x
       \/ /\ Kinds(ts, n, 8) = <<"BeginLoop", "Move", "Add", "Move", "Add",
                                 "Move", "Add", "EndLoop">>
          /\ ts[n + 7].x = -1
          /\ -ts[n + 6].x = ts[n + 2].x + ts[n + 4].x

\* the replacement the claim names for the copy loop at n
CopyLoopExpected(ts, n) ==
    LET b == IF ts[n + 2].k = "Add" THEN n + 2 ELSE n + 1
    IN  <<Mult(ts[b + 1].x, ts[b + 2].x),
          Mult(ts[b + 1].x + ts[b + 3].x, ts[b + 4].x), Zero>>

\* C6: at level >= 2 a loop whose body is exactly -1, m1, a1, m2, a2, m3 (either
\* rotation) with -m3 = m1 + m2 is replaced by Mult(m1,a1), Mult(m1+m2,a2),
\* Zero; the whole loop is consumed and the scan resumes right after its
\* EndLoop; the scan is never inside such a loop. For "[->+>+<<]" the final
\* sequence is Mult(1,1), Mult(2,1), Zero.
C6_CopyLoop ==
    /\ [][(pc = "peephole" /\ pc' = "peephole" /\ optilevel >= 2
             /\ IsCopyLoopAt(tokens, i)) =>
            /\ newtokens' = newtokens \o CopyLoopExpected(tokens, i)
            /\ i' = i + 8]_vars
    /\ []((pc = "peephole" /\ optilevel >= 2) =>
            \A n \in 0..(Len(tokens) - 1) :
                IsCopyLoopAt(tokens, n) => (i <= n \/ i >= n + 8))
    /\ []((pc = "done" /\ optilevel >= 2
             /\ input_contents = <<"[", "-", ">", "+", ">", "+", "<", "<", "]">>)
            => newtokens = <<Mult(1, 1), Mult(2, 1), Zero>>)

\* the second rotation with negative moves and factors 2 and -2, rewritten
C6_Witness ==
    /\ pc = "done" /\ optilevel = 2
    /\ newtokens = <<Mult(-1, 2), Mult(-2, -2), Zero>>

IsSpanAt(ts, n) ==
    n + 3 <= Len(ts) /\ Kinds(ts, n, 3) = <<"Move", "Add", "Move">>

\* a Move, Add/Zero, Move span at n with moves of opposite sign
StartsOffsetSpan(ts, n) ==
    /\ n + 3 <= Len(ts)
    /\ ts[n + 1].k = "Move" /\ ts[n + 2].k \in {"Add", "Zero"}
    /\ ts[n + 3].k = "Move" /\ OppositeSign(ts[n + 1].x, ts[n + 3].x)

SpanRewrite(ts, n) ==
    IF ts[n + 1].x = -ts[n + 3].x
    THEN <<AddOffset(ts[n + 2].x, ts[n + 1].x)>>
    ELSE <<AddOffset(ts[n + 2].x, ts[n + 1].x), Move(ts[n + 1].x + ts[n + 3].x)>>

ReachedSpans ==
    {v \in Visits(tokens, 0, 0, optimizations) :
        v[1] < Len(tokens) - WindowLen /\ IsSpanAt(tokens, v[1])}

\* C7 as stated: at level >= 3 a span Move(m1), Add(a), Move(m2) reached by the
\* scan is rewritten to AddOffset(a, m1), with Move(m1+m2) after it unless
\* m1 = -m2, when the moves have opposite sign, and is left unchanged in the
\* final sequence when they have the same sign.
C7_AsStated ==
    (pc = "done" /\ optilevel >= 3) =>
        \A v \in ReachedSpans :
            LET n == v[1]
                at == v[2]
            IN  IF OppositeSign(tokens[n + 1].x, tokens[n + 3].x)
                THEN LET e == SpanRewrite(tokens, n)
                     IN  /\ SubSeq(newtokens, at + 1, at + Len(e)) = e
                         /\ <<n + 3, at + Len(e)>> \in Visits(tokens, 0, 0, optimizations)
                ELSE SubSeq(newtokens, at + 1, at + 3) = SubSeq(tokens, n + 1, n + 3)

\* C7 amended: as stated for moves of opposite sign; with moves of the same
\* sign the span is not rewritten: Move(m1) and Add(a) are emitted unchanged
\* and the scan continues at Move(m2), which is emitted unchanged unless it
\* starts an opposite-sign Move, Add, Move or Move, Zero, Move span, which is
\* then rewritten. For ">+<" the final sequence is exactly AddOffset(1, 1).
C7_AddOffset ==
    (pc = "done" /\ optilevel >= 3) =>
        /\ \A v \in ReachedSpans :
            LET n == v[1]
                at == v[2]
            IN  IF OppositeSign(tokens[n + 1].x, tokens[n + 3].x)
                THEN LET e == SpanRewrite(tokens, n)
                     IN  /\ SubSeq(newtokens, at + 1, at + Len(e)) = e
                         /\ <<n + 3, at + Len(e)>> \in Visits(tokens, 0, 0, optimizations)
                ELSE /\ SubSeq(newtokens, at + 1, at + 2) = SubSeq(tokens, n + 1, n + 2)
                     /\ <<n + 2, at + 2>> \in Visits(tokens, 0, 0, optimizations)
                     /\ IF StartsOffsetSpan(tokens, n + 2)
                        THEN newtokens[at + 3].k \in {"AddOffset", "ZeroOffset"}
                        ELSE newtokens[at + 3] = tokens[n + 3]
        /\ input_contents = <<">", "+", "<">> => newtokens = <<AddOffset(1, 1)>>

\* ">+>>+<": the same-sign span loses its trailing Move to the next rewrite
C7_Witness ==
    /\ pc = "done" /\ optilevel = 3
    /\ newtokens = <<Move(1), Add(1), AddOffset(1, 2), Move(1)>>

MatchedShape == Match(Window(tokens, i), optimizations).shape

ScanStep == pc = "peephole" /\ pc' = "peephole"

\* C8 as stated: on a match the scan position advances by exactly 5 for the
\* move-accumulate loop, 7 for the copy loop and 2 for each offset idiom.
C8_AsStated ==
    [][ScanStep =>
          /\ MatchedShape = "move_loop" => i' = i + 5
          /\ MatchedShape = "copy_loop" => i' = i + 7
          /\ MatchedShape \in {"add_offset", "zero_offset"} => i' = i + 2]_vars

\* C8 amended: the matching arm adds 5, 7 or 2 and the loop adds 1 more, so the
\* scan position advances by exactly 6 for the move-accumulate loop, 8 for the
\* copy loop and 3 for each offset idiom: the length of the matched span, which
\* ends with EndLoop for a loop and with a Move for an offset idiom.
C8_Advance ==
    [][ScanStep =>
          /\ MatchedShape = "move_loop" =>
                (i' = i + 6 /\ tokens[i + 1] = BeginLoop /\ tokens[i'] = EndLoop)
          /\ MatchedShape = "copy_loop" =>
                (i' = i + 8 /\ tokens[i + 1] = BeginLoop /\ tokens[i'] = EndLoop)
          /\ MatchedShape \in {"add_offset", "zero_offset"} =>
                (i' = i + 3 /\ tokens[i'].k = "Move")
          /\ MatchedShape = "none" => i' = i + 1]_vars

\* the scan after a move-accumulate loop followed by an offset idiom
C8_Witness ==
    /\ pc = "done"
    /\ \E n \in 1..(Len(newtokens) - 2) :
          /\ newtokens[n].k = "Mult" /\ newtokens[n + 1] = Zero
          /\ newtokens[n + 2].k = "AddOffset"

IsMarker(t) == t = BeginLoop \/ t = EndLoop

Markers(ts) == SelectSeq(ts, IsMarker)

RECURSIVE Depth(_, _)
\* the nesting depth after ms, or -1 once an EndLoop has no BeginLoop
Depth(ms, d) ==
    IF d < 0 THEN -1
    ELSE IF ms = <<>> THEN d
    ELSE Depth(Tail(ms), IF Head(ms) = BeginLoop THEN d + 1 ELSE d - 1)

Balanced(ts) == Depth(Markers(ts), 0) = 0

\* C9: the peephole scan preserves loop structure: a step either passes the
\* markers of the span it consumes through, in order, or consumes a span that
\* starts with BeginLoop, ends with EndLoop and holds no other marker, emitting
\* no marker; so the output is balanced if and only if the input is.
C9_LoopStructure ==
    /\ [][ScanStep =>
            LET consumed == SubSeq(tokens, i + 1, i')
            IN  \/ Markers(newtokens') = Markers(newtokens) \o Markers(consumed)
                \/ /\ Markers(consumed) = <<BeginLoop, EndLoop>>
                   /\ Head(consumed) = BeginLoop
                   /\ consumed[Len(consumed)] = EndLoop
                   /\ Markers(newtokens') = Markers(newtokens)]_vars
    /\ [](pc \in {"peephole", "done"} =>
            (Balanced(newtokens \o SubSeq(tokens, i + 1, Len(tokens)))
                <=> Balanced(tokens)))

\* a loop was rewritten and markers remain
C9_Witness ==
    /\ pc = "done"
    /\ Len(Markers(newtokens)) < Len(Markers(tokens))
    /\ Markers(newtokens) # <<>>
    /\ Balanced(newtokens)

\* C10: every tape cell the optimized sequence reads or writes is also read or
\* written by the unoptimized sequence from the same state, so when the
\* unoptimized run stays inside the tape the optimized run does too.
C10_NoNewAccess ==
    (phase = "done" /\ mU.st = "halt") =>
        (mO.acc \subseteq mU.acc /\ mO.st = "halt")

====
